---- MODULE Spec2Model ----
(***************************************************************************)
(* Model of the collect CLI (src/src/main.rs): the path filter             *)
(* (should_process), the record writer (process_file), the content         *)
(* streamer (stream_file_content) and the traversal loop of main.          *)
(*                                                                         *)
(* Text is modelled as a sequence of tokens (strings).  A file name is a   *)
(* sequence of one-character tokens, a path is a sequence of file names    *)
(* (its components), a file's content is a sequence of byte tokens.        *)
(* Option<T> is modelled as a sequence of length at most one.              *)
(***************************************************************************)
EXTENDS Integers, Sequences, FiniteSets, TLC

VARIABLES
    args,      \* inputs of a single call (specifications SpecFilter, SpecStream)
    ret,       \* what that call returned
    entries,   \* what the walker yields, in order (main, line 431)
    config,    \* the AppConfig built at line 394
    idx,       \* number of walker results consumed so far
    sink,      \* the bytes accepted by `writer`, in order
    diag,      \* the lines written to stderr, in order
    count,     \* `count` of main (line 428)
    state,     \* "Running", "Completed", "Aborted" (line 453), "Failed" (line 478)
    flushes,   \* number of calls of w.flush() (line 475)
    exit,      \* what main returned: "running", "Ok" or "Err"
    last,      \* how the last loop iteration (or the flush) ended
    faults     \* the classes of I/O failure seen so far ("read", "write")

vars == <<args, ret, entries, config, idx, sink, diag, count, state, flushes, exit, last, faults>>

(***************************************************************************)
(* Bounds of the model.                                                    *)
(***************************************************************************)
\* stands for the 8192-byte lookahead buffer of line 283, scaled down
LookaheadLen == 2
\* longest file content (in bytes) of the single-call specification
MaxFileLen == 4
\* largest finite --max-bytes of the single-call specification
MaxCap == 5
\* the I/O call (counted from 1) that an injected fault makes fail; 0 = none
MaxFaultAt == 6
\* longest prefix an interrupted io::copy has already written
MaxPart == 1
\* longest file name (in characters) of the filter specification
MaxNameLen == 3
\* number of walker results after the root
MaxEntries == 2

\* u64::MAX of line 300, as the largest integer TLC holds
U64_MAX == 2147483647

(***************************************************************************)
(* Option, sequences.                                                      *)
(***************************************************************************)
None == <<>>
Some(x) == <<x>>
is_some(o) == o # <<>>
unwrap(o) == o[1]
unwrap_or(o, d) == IF o = <<>> THEN d ELSE o[1]

Min(a, b) == IF a <= b THEN a ELSE b

SeqsUpTo(S, n) == UNION {[1..k -> S] : k \in 0..n}

contains(list, x) == \E i \in 1..Len(list) : list[i] = x

IsPrefix(p, s) == Len(p) <= Len(s) /\ SubSeq(s, 1, Len(p)) = p

RECURSIVE Concat(_)
Concat(ss) == IF ss = <<>> THEN <<>> ELSE Head(ss) \o Concat(Tail(ss))

(***************************************************************************)
(* Characters and strings (std).                                           *)
(***************************************************************************)
\* a byte sequence that is not valid UTF-8 (one token)
BAD == "\\xFF"
\* what Display prints for it (U+FFFD)
REPL == "\\uFFFD"
\* the zero byte
NUL == "\\0"
NL == "\n"

lower(c) == CASE c = "A" -> "a" [] c = "B" -> "b" [] c = "C" -> "c" [] OTHER -> c

\* str::to_lowercase
to_lowercase(s) == [i \in 1..Len(s) |-> lower(s[i])]

\* OsStr::to_str: None when the text is not valid UTF-8
to_str(s) == IF \E i \in 1..Len(s) : s[i] = BAD THEN None ELSE Some(s)

RECURSIVE trim_start(_, _)
trim_start(s, c) == IF s # <<>> /\ Head(s) = c THEN trim_start(Tail(s), c) ELSE s

RECURSIVE trim_end(_, _)
trim_end(s, c) ==
    IF s # <<>> /\ s[Len(s)] = c THEN trim_end(SubSeq(s, 1, Len(s) - 1), c) ELSE s

\* str::trim (the only white space of the model is the blank)
trim(s) == trim_end(trim_start(s, " "), " ")

\* str::trim_start_matches('.')
trim_start_matches_dot(s) == trim_start(s, ".")

(***************************************************************************)
(* Paths (std::path::Path).                                                *)
(***************************************************************************)
DotDot == <<".", ".">>

\* Path::file_name: the last component, None for "" and for a path ending in ".."
file_name(path) ==
    IF path = <<>> \/ path[Len(path)] = DotDot THEN None ELSE Some(path[Len(path)])

LastDot(name) ==
    IF \E i \in 1..Len(name) : name[i] = "."
    THEN CHOOSE i \in 1..Len(name) :
            name[i] = "." /\ \A j \in (i + 1)..Len(name) : name[j] # "."
    ELSE 0

\* Path::extension: the text after the last dot of the file name; None when
\* there is no dot or when the only dot is the first character
extension(path) ==
    LET f == file_name(path) IN
    IF ~is_some(f) THEN None
    ELSE LET name == unwrap(f)
             d    == LastDot(name)
         IN IF d <= 1 THEN None ELSE Some(SubSeq(name, d + 1, Len(name)))

RECURSIVE Join(_)
Join(path) ==
    IF path = <<>> THEN <<>>
    ELSE IF Len(path) = 1 THEN path[1]
    ELSE path[1] \o <<"/">> \o Join(Tail(path))

\* Path::to_str on the whole path
path_to_str(path) == to_str(Join(path))

\* Path::display: lossy, an invalid sequence prints as U+FFFD
display(path) ==
    LET s == Join(path) IN [i \in 1..Len(s) |-> IF s[i] = BAD THEN REPL ELSE s[i]]

\* Path::strip_prefix(base).unwrap_or(path)
strip_prefix_or(path, base) ==
    IF IsPrefix(base, path) THEN SubSeq(path, Len(base) + 1, Len(path)) ELSE path

(***************************************************************************)
(* Regex: the patterns of the model are literals, which match a text       *)
(* exactly when the text contains them.                                    *)
(***************************************************************************)
is_match(re, text) ==
    \E i \in 0..(Len(text) - Len(re)) : SubSeq(text, i + 1, i + Len(re)) = re

(***************************************************************************)
(* AppConfig::from_cli                                                     *)
(***************************************************************************)
normalize_ext(e) == to_lowercase(trim_start_matches_dot(trim(e)))

from_cli(cli) ==
    LET raw == IF is_some(cli.extension) THEN <<cli.extension, FALSE>>
               ELSE IF is_some(cli.no_extension) THEN <<cli.no_extension, TRUE>>
               ELSE <<None, FALSE>>
        raw_extensions == raw[1]
        extensions ==
            IF is_some(raw_extensions)
            THEN Some([i \in 1..Len(unwrap(raw_extensions)) |->
                          normalize_ext(unwrap(raw_extensions)[i])])
            ELSE None
    IN [extensions    |-> extensions,
        extension_inv |-> raw[2],
        regex         |-> cli.regex,
        regex_inv     |-> cli.regex_inv,
        scope         |-> cli.scope,
        base_path     |-> cli.path,
        output        |-> cli.output,
        absolute_path |-> cli.absolute,
        max_bytes     |-> cli.max_bytes,
        read_content  |-> cli.content,
        quiet         |-> cli.quiet]

(***************************************************************************)
(* should_process                                                          *)
(***************************************************************************)
should_process_no_lowercase(path, cfg, is_dir) ==
    IF /\ ~is_dir
       /\ is_some(cfg.extensions)
       /\ LET file_ext == unwrap_or(extension(path), <<>>)
              found    == contains(unwrap(cfg.extensions), file_ext)
          IN found = cfg.extension_inv
    THEN FALSE
    ELSE IF /\ is_some(cfg.regex)
            /\ LET text_to_match ==
                       IF cfg.scope = "Name"
                       THEN unwrap_or(IF is_some(file_name(path))
                                      THEN to_str(unwrap(file_name(path)))
                                      ELSE None, <<>>)
                       ELSE unwrap_or(path_to_str(path), <<>>)
                   found == is_match(unwrap(cfg.regex), text_to_match)
               IN found = cfg.regex_inv
    THEN FALSE
    ELSE TRUE

should_process(path, cfg, is_dir) ==
    IF /\ ~is_dir
       /\ is_some(cfg.extensions)
       /\ LET file_ext ==
                  unwrap_or(IF is_some(extension(path))
                            THEN (IF is_some(to_str(unwrap(extension(path))))
                                  THEN Some(to_lowercase(unwrap(to_str(unwrap(extension(path))))))
                                  ELSE None)
                            ELSE None, <<>>)
              found == contains(unwrap(cfg.extensions), file_ext)
          IN found = cfg.extension_inv
    THEN FALSE
    ELSE IF /\ is_some(cfg.regex)
            /\ LET text_to_match ==
                       IF cfg.scope = "Name"
                       THEN unwrap_or(IF is_some(file_name(path))
                                      THEN to_str(unwrap(file_name(path)))
                                      ELSE None, <<>>)
                       ELSE unwrap_or(path_to_str(path), <<>>)
                   found == is_match(unwrap(cfg.regex), text_to_match)
               IN found = cfg.regex_inv
    THEN FALSE
    ELSE TRUE

(***************************************************************************)
(* The writer and the file system.                                         *)
(*                                                                         *)
(* w = [out, err, n, reads, rfail]: the bytes `writer` accepted during a   *)
(* call, the io::Error kind that ended the call ("none" while it runs),    *)
(* the number of I/O calls made, the number of reads of the file, and      *)
(* whether the error came from the lookahead read.  A fault = [at, kind,   *)
(* part] makes I/O call number `at` fail with an error of that kind.       *)
(* Every later statement is skipped once err is set (the ? operator).      *)
(***************************************************************************)
NewWriter == [out |-> <<>>, err |-> "none", n |-> 0, reads |-> 0, rfail |-> FALSE]

NoFault == [at |-> 0, kind |-> "Other", part |-> 0]

\* writer.write_all(data)? and writeln!(writer, ...)?: the data is far smaller
\* than the 64KB buffer of line 403, so a failed call has accepted none of it
Write(w, data, fault) ==
    IF w.err # "none" THEN w
    ELSE IF fault.at = w.n + 1 THEN [w EXCEPT !.n = @ + 1, !.err = fault.kind]
    ELSE [w EXCEPT !.n = @ + 1, !.out = @ \o data]

\* reader.read(&mut buffer)?: one read of a regular file into the lookahead
\* buffer, which fills it unless the file ends first
Read(w, bytes, fault) ==
    IF fault.at = w.n + 1
    THEN [w |-> [w EXCEPT !.n = @ + 1, !.reads = @ + 1, !.err = "Other", !.rfail = TRUE],
          n |-> 0]
    ELSE [w |-> [w EXCEPT !.n = @ + 1, !.reads = @ + 1],
          n |-> Min(Len(bytes), LookaheadLen)]

\* io::copy(&mut reader.take(allowance), writer)?: streams the rest of the
\* file, at most `allowance` bytes; a failure leaves a prefix written
Copy(w, rest, allowance, fault) ==
    LET data == SubSeq(rest, 1, Min(Len(rest), allowance)) IN
    IF w.err # "none" THEN w
    ELSE IF fault.at = w.n + 1
    THEN [w EXCEPT !.n = @ + 1, !.reads = @ + 1, !.err = fault.kind,
                   !.out = @ \o SubSeq(data, 1, Min(fault.part, Len(data)))]
    ELSE [w EXCEPT !.n = @ + 1, !.reads = @ + 1, !.out = @ \o data]

\* memchr(0, haystack).is_some()
memchr_first_only(needle, hay) == hay # <<>> /\ hay[1] = needle

memchr(needle, hay) == \E i \in 1..Len(hay) : hay[i] = needle

\* line 276 (e stands for the text of the io::Error)
OpenErrorMarker == <<NL, "<Error opening file: e>", NL, NL>>
EmptyMarkerBare == <<"<Empty File>", NL>>

\* line 289
EmptyMarker == <<NL, "<Empty File>", NL, NL>>
\* line 295
BinaryMarker == <<NL, "<Binary content suppressed>", NL, NL>>

bytes_to_write_uncapped(n, limit) == n

\* line 305
bytes_to_write_from_buffer(n, limit) == Min(n, limit)

(***************************************************************************)
(* stream_file_content.  file = [openable, bytes].                         *)
(***************************************************************************)
stream_file_content(file, w0, max_bytes, fault) ==
    IF ~file.openable THEN Write(w0, OpenErrorMarker, fault)
    ELSE
    LET r == Read(w0, file.bytes, fault)
        n == r.n
        buffer == SubSeq(file.bytes, 1, n)
    IN  IF r.w.err # "none" THEN r.w
        ELSE IF n = 0 THEN Write(r.w, EmptyMarker, fault)
        ELSE IF memchr(NUL, buffer) THEN Write(r.w, BinaryMarker, fault)
        ELSE
        LET limit == unwrap_or(max_bytes, U64_MAX)
            k     == bytes_to_write_from_buffer(n, limit)
            w1    == Write(r.w, <<NL>>, fault)
            w2    == Write(w1, SubSeq(buffer, 1, k), fault)
            w3    == IF limit > k
                     THEN Copy(w2, SubSeq(file.bytes, n + 1, Len(file.bytes)),
                               limit - k, fault)
                     ELSE w2
        IN  Write(w3, <<NL, NL>>, fault)

(***************************************************************************)
(* process_file.  canon is what path.canonicalize() returns (None: Err).   *)
(***************************************************************************)
header_bare(path_display, read_content) == display(path_display) \o <<NL>>

\* lines 252-256
header(path_display, read_content) ==
    IF read_content
    THEN <<"=== ">> \o display(path_display) \o <<" ===", NL>>
    ELSE display(path_display) \o <<NL>>

process_file(path, canon, file, cfg, w0, fault) ==
    LET path_display == IF cfg.absolute_path THEN unwrap_or(canon, path)
                        ELSE strip_prefix_or(path, cfg.base_path)
        w1 == Write(w0, header(path_display, cfg.read_content), fault)
    IN  IF cfg.read_content
        THEN stream_file_content(file, w1, cfg.max_bytes, fault)
        ELSE w1

(***************************************************************************)
(* main: the traversal loop (lines 428-468) and the end of the run         *)
(* (lines 470-486).  A walker result is                                    *)
(*   [is_error, path, depth, file_type, file, canon]                       *)
(* where file and canon are what the file system holds for the path.       *)
(***************************************************************************)
should_emit_any_depth(entry, cfg) ==
    LET is_dir == entry.file_type = "dir" IN
    should_process(entry.path, cfg, is_dir) /\ ~is_dir

should_emit_dirs_too(entry, cfg) ==
    entry.depth # 0 /\ should_process(entry.path, cfg, entry.file_type = "dir")

\* lines 437-444: the root is skipped, then the filter and the directory test
should_emit(entry, cfg) ==
    /\ entry.depth # 0
    /\ LET is_dir == entry.file_type = "dir" IN
       should_process(entry.path, cfg, is_dir) /\ ~is_dir

is_broken_pipe_never(kind) == FALSE

is_broken_pipe_any_error(kind) == kind # "none"

\* line 452
is_broken_pipe(kind) == kind = "BrokenPipe"

report_summary_on_file_too(cfg) == ~cfg.quiet

\* line 482
report_summary(cfg) == ~cfg.quiet /\ ~is_some(cfg.output)

\* eprintln!, unless quiet (lines 455-457, 463-465)
log_unless_quiet(cfg, d, msg) == IF ~cfg.quiet THEN Append(d, msg) ELSE d

Faults ==
    {NoFault} \cup
    [at : 1..MaxFaultAt, kind : {"BrokenPipe", "Other"}, part : 0..MaxPart]

\* the Err arm of the match (lines 462-466)
StepError ==
    /\ state = "Running"
    /\ idx < Len(entries)
    /\ entries[idx + 1].is_error
    /\ diag' = log_unless_quiet(config, diag, "Traversal Error")
    /\ idx' = idx + 1
    /\ last' = "TraversalError"
    /\ UNCHANGED <<args, ret, entries, config, sink, count, state, flushes, exit, faults>>

\* the Ok arm for an entry that yields no record (lines 437-444)
StepSkip ==
    /\ state = "Running"
    /\ idx < Len(entries)
    /\ ~entries[idx + 1].is_error
    /\ ~should_emit(entries[idx + 1], config)
    /\ idx' = idx + 1
    /\ last' = "skip"
    /\ UNCHANGED <<args, ret, entries, config, sink, diag, count, state, flushes, exit, faults>>

\* the Ok arm for an entry that is written (lines 444-460)
StepProcess ==
    /\ state = "Running"
    /\ idx < Len(entries)
    /\ ~entries[idx + 1].is_error
    /\ should_emit(entries[idx + 1], config)
    /\ \E fault \in Faults :
         LET entry == entries[idx + 1]
             w == process_file(entry.path, entry.canon, entry.file, config,
                               NewWriter, fault)
         IN  /\ sink' = sink \o w.out
             /\ idx' = idx + 1
             /\ last' = IF w.err = "none" THEN "Ok" ELSE w.err
             /\ faults' = IF w.err = "none" THEN faults
                          ELSE faults \cup {IF w.rfail THEN "read" ELSE "write"}
             /\ IF w.err # "none" /\ is_broken_pipe(w.err)
                THEN /\ state' = "Aborted"
                     /\ exit' = "Ok"
                     /\ UNCHANGED <<diag, count>>
                ELSE /\ diag' = IF w.err # "none"
                                THEN log_unless_quiet(config, diag, "Error processing")
                                ELSE diag
                     /\ count' = count + 1
                     /\ UNCHANGED <<state, exit>>
    /\ UNCHANGED <<args, ret, entries, config, flushes>>

\* lines 470-486: flush, then the summary; a flush error other than broken
\* pipe is returned from main, which the runtime reports on stderr
Finish ==
    /\ state = "Running"
    /\ idx = Len(entries)
    /\ flushes' = flushes + 1
    /\ \E e \in {"none", "BrokenPipe", "Other"} :
         IF e # "none" /\ ~is_broken_pipe(e)
         THEN /\ state' = "Failed"
              /\ exit' = "Err"
              /\ last' = "FlushOther"
              /\ diag' = Append(diag, "Error")
         ELSE /\ state' = "Completed"
              /\ exit' = "Ok"
              /\ last' = IF e = "none" THEN "FlushOk" ELSE "FlushBrokenPipe"
              /\ diag' = IF report_summary(config) THEN Append(diag, "Done") ELSE diag
    /\ UNCHANGED <<args, ret, entries, config, idx, sink, count, faults>>

(***************************************************************************)
(* The runs of main that the model explores.                               *)
(***************************************************************************)
BasePath == <<<<"r">>>>

WalkCli ==
    [extension : {None, Some(<<<<"a">>>>)}, no_extension : {None},
     regex : {None}, regex_inv : {FALSE}, scope : {"Name"},
     path : {BasePath}, output : {None, Some(<<<<"o">>>>)}, absolute : {FALSE},
     max_bytes : {None, Some(1)}, content : BOOLEAN, quiet : BOOLEAN]

TextFile == [openable |-> TRUE, bytes |-> [i \in 1..(LookaheadLen + 1) |-> "x"]]
NoFile == [openable |-> FALSE, bytes |-> <<>>]

WalkEntry(err, path, file_type, file) ==
    [is_error |-> err, path |-> path, depth |-> Len(path) - Len(BasePath),
     file_type |-> file_type, file |-> file, canon |-> None]

RootDir == WalkEntry(FALSE, BasePath, "dir", NoFile)
RootFile == WalkEntry(FALSE, BasePath, "file", TextFile)

WalkEntries ==
    { WalkEntry(TRUE, BasePath, "file", NoFile),
      WalkEntry(FALSE, BasePath \o <<<<"d">>>>, "dir", NoFile),
      WalkEntry(FALSE, BasePath \o <<<<"a", ".", "a">>>>, "file", TextFile),
      WalkEntry(FALSE, BasePath \o <<<<"d">>, <<"b", ".", "A">>>>, "file", NoFile),
      WalkEntry(FALSE, BasePath \o <<<<"c">>>>, "file", TextFile) }

NoCall == [done |-> TRUE]

Init ==
    /\ args = NoCall
    /\ ret = NoCall
    /\ entries \in {<<RootFile>>} \cup
                   {<<RootDir>> \o s : s \in SeqsUpTo(WalkEntries, MaxEntries)}
    /\ config \in {from_cli(cli) : cli \in WalkCli}
    /\ idx = 0
    /\ sink = <<>>
    /\ diag = <<>>
    /\ count = 0
    /\ state = "Running"
    /\ flushes = 0
    /\ exit = "running"
    /\ last = "init"
    /\ faults = {}

Next == StepError \/ StepSkip \/ StepProcess \/ Finish

Spec == Init /\ [][Next]_vars

(***************************************************************************)
(* Single calls of should_process on drawn inputs.                         *)
(***************************************************************************)
MainIdle ==
    /\ entries = <<>>
    /\ config = NoCall
    /\ idx = 0
    /\ sink = <<>>
    /\ diag = <<>>
    /\ count = 0
    /\ state = "Idle"
    /\ flushes = 0
    /\ exit = "running"
    /\ last = "init"
    /\ faults = {}

mainVars == <<entries, config, idx, sink, diag, count, state, flushes, exit, last, faults>>

NameChars == {"a", "b", "c", "A", "."}

FileNames == SeqsUpTo(NameChars, MaxNameLen) \ {<<>>}

FilterPaths ==
    {<<f>> : f \in FileNames} \cup {<<<<"a", "b">>, f>> : f \in FileNames}
    \cup {<<>>, <<<<"a", ".", BAD>>>>, <<<<BAD, ".", "a">>>>, <<<<BAD>>, <<"b", ".", "B">>>>}

ExtLists ==
    { <<<<"a">>, <<"b">>>>, <<<<".", "A">>>>, <<<<" ", "c">>, <<>>>> }

FilterCli ==
    ( [extension : {Some(l) : l \in ExtLists}, no_extension : {None}]
      \cup [extension : {None}, no_extension : {None} \cup {Some(l) : l \in ExtLists}] )
    \X [regex : {None, Some(<<"a">>), Some(<<"a", "b", "/">>)},
        regex_inv : BOOLEAN, scope : {"Name", "Path"}]

FilterConfig(c) ==
    from_cli([extension |-> c[1].extension, no_extension |-> c[1].no_extension,
              regex |-> c[2].regex, regex_inv |-> c[2].regex_inv, scope |-> c[2].scope,
              path |-> <<>>, output |-> None, absolute |-> FALSE,
              max_bytes |-> None, content |-> FALSE, quiet |-> FALSE])

InitFilter ==
    /\ args \in [path : FilterPaths, cfg : {FilterConfig(c) : c \in FilterCli},
                 is_dir : BOOLEAN]
    /\ ret = [done |-> FALSE, val |-> FALSE]
    /\ MainIdle

CallShouldProcess ==
    /\ ~ret.done
    /\ ret' = [done |-> TRUE, val |-> should_process(args.path, args.cfg, args.is_dir)]
    /\ UNCHANGED <<args, mainVars>>

NextFilter == CallShouldProcess

SpecFilter == InitFilter /\ [][NextFilter]_vars

(***************************************************************************)
(* Single calls of stream_file_content and of process_file on drawn        *)
(* inputs, file-system contents and I/O faults.                            *)
(***************************************************************************)
Bytes == {"x", NUL}

Files ==
    {NoFile} \cup [openable : {TRUE}, bytes : SeqsUpTo(Bytes, MaxFileLen)]

AbsRoot == <<<<>>, <<"w">>>>

\* [path, canon, absolute]: a path below the base, shown relative or
\* canonical; a path outside the base that is not valid UTF-8
Shown ==
    { [path |-> BasePath \o <<<<"a", ".", "b">>>>, canon |-> None, absolute |-> FALSE],
      [path |-> <<<<"q">>, <<BAD>>>>, canon |-> None, absolute |-> FALSE],
      [path |-> BasePath \o <<<<"a", ".", "b">>>>, canon |-> None, absolute |-> TRUE],
      [path |-> BasePath \o <<<<"a", ".", "b">>>>,
       canon |-> Some(AbsRoot \o BasePath \o <<<<"a", ".", "b">>>>), absolute |-> TRUE] }

StreamConfig(absolute, content, max_bytes) ==
    from_cli([extension |-> None, no_extension |-> None,
              regex |-> None, regex_inv |-> FALSE, scope |-> "Name",
              path |-> BasePath, output |-> None, absolute |-> absolute,
              max_bytes |-> max_bytes, content |-> content, quiet |-> FALSE])

Caps == {None} \cup {Some(m) : m \in 0..MaxCap}

InitStream ==
    /\ \E sh \in Shown, content \in BOOLEAN, cap \in Caps, f \in Files, fault \in Faults :
         args = [path |-> sh.path, canon |-> sh.canon, file |-> f,
                 cfg |-> StreamConfig(sh.absolute, content, cap), fault |-> fault]
    /\ ret = [done |-> FALSE, fn |-> "none", w |-> NewWriter]
    /\ MainIdle

\* stream_file_content is only called with content capture on (line 259)
CallStreamFileContent ==
    /\ ~ret.done
    /\ args.cfg.read_content
    /\ ret' = [done |-> TRUE, fn |-> "stream_file_content",
               w |-> stream_file_content(args.file, NewWriter, args.cfg.max_bytes,
                                         args.fault)]
    /\ UNCHANGED <<args, mainVars>>

CallProcessFile ==
    /\ ~ret.done
    /\ ret' = [done |-> TRUE, fn |-> "process_file",
               w |-> process_file(args.path, args.canon, args.file, args.cfg,
                                  NewWriter, args.fault)]
    /\ UNCHANGED <<args, mainVars>>

NextStream == CallStreamFileContent \/ CallProcessFile

SpecStream == InitStream /\ [][NextStream]_vars

(***************************************************************************)
(* What the claims speak of.                                               *)
(***************************************************************************)
\* the lower-cased extension of the path, empty when there is none or when
\* it is not text
ExtText(path) ==
    LET e == extension(path) IN
    IF ~is_some(e) \/ ~is_some(to_str(unwrap(e))) THEN <<>> ELSE to_lowercase(unwrap(e))

\* the text the pattern is tested on
ScopeText(path, scope) ==
    IF scope = "Name"
    THEN (IF is_some(file_name(path)) /\ is_some(to_str(unwrap(file_name(path))))
          THEN unwrap(file_name(path)) ELSE <<>>)
    ELSE (IF is_some(to_str(Join(path))) THEN Join(path) ELSE <<>>)

ExtensionCheck(path, cfg, is_dir) ==
    \/ is_dir
    \/ ~is_some(cfg.extensions)
    \/ contains(unwrap(cfg.extensions), ExtText(path)) # cfg.extension_inv

PatternCheck(path, cfg) ==
    \/ ~is_some(cfg.regex)
    \/ is_match(unwrap(cfg.regex), ScopeText(path, cfg.scope)) # cfg.regex_inv

Accepts(path, cfg, is_dir) == ExtensionCheck(path, cfg, is_dir) /\ PatternCheck(path, cfg)

ListAB == <<<<"a">>, <<"b">>>>

\* C6: should_process returns true exactly when the extension check and the
\* pattern check both pass; with whitelist {a,b} a file is accepted exactly
\* when its extension is a or b, with blacklist {a,b} exactly when it is not
\* (so a file with no extension is rejected by the first and accepted by the
\* second); and whenever a pattern is configured and the extension check
\* passes, flipping pattern_invert flips the answer.
C6_FilterDecision ==
    ret.done =>
        /\ ret.val = Accepts(args.path, args.cfg, args.is_dir)
        /\ (/\ ~args.is_dir
            /\ args.cfg.extensions = Some(ListAB)
            /\ ~is_some(args.cfg.regex))
           => /\ ~args.cfg.extension_inv
                 => ret.val = (ExtText(args.path) \in {<<"a">>, <<"b">>})
              /\ args.cfg.extension_inv
                 => ret.val = (ExtText(args.path) \notin {<<"a">>, <<"b">>})
              /\ ~is_some(extension(args.path)) => ret.val = args.cfg.extension_inv
        /\ (is_some(args.cfg.regex) /\ ExtensionCheck(args.path, args.cfg, args.is_dir))
           => ret.val # should_process(args.path,
                                       [args.cfg EXCEPT !.regex_inv = ~@], args.is_dir)

\* a file named c.A, accepted by whitelist {a,b} and by an inverted pattern
C6_Witness ==
    /\ ret.done
    /\ ret.val
    /\ ~args.is_dir
    /\ args.cfg.extensions = Some(ListAB)
    /\ ~args.cfg.extension_inv
    /\ extension(args.path) = Some(<<"A">>)
    /\ is_some(args.cfg.regex)
    /\ args.cfg.regex_inv

IsBinary(file) ==
    /\ file.openable
    /\ \E i \in 1..Min(Len(file.bytes), LookaheadLen) : file.bytes[i] = NUL

IsText(file) == file.openable /\ file.bytes # <<>> /\ ~IsBinary(file)

\* the first min(N, M) bytes of the file (all N when there is no cap)
CappedBytes(file, max_bytes) ==
    SubSeq(file.bytes, 1,
           IF is_some(max_bytes) THEN Min(Len(file.bytes), unwrap(max_bytes))
           ELSE Len(file.bytes))

ContentCount(out) == Cardinality({i \in 1..Len(out) : out[i] \in Bytes})

StreamCalled == ret.done /\ ret.fn = "stream_file_content"

\* C1: for a non-empty file with no zero byte in the lookahead, a call of
\* stream_file_content in which no I/O call fails writes a newline, the first
\* min(N, M) bytes of the file (all N without a cap) and two newlines; a call
\* that fails has written a prefix of that; in no case are more than
\* max_bytes content bytes written.
C1_ByteCap ==
    (StreamCalled /\ IsText(args.file)) =>
        LET want == CappedBytes(args.file, args.cfg.max_bytes) IN
        /\ args.fault = NoFault => ret.w.err = "none"
        /\ ret.w.err = "none" => ret.w.out = <<NL>> \o want \o <<NL, NL>>
        /\ ret.w.err # "none" => IsPrefix(ret.w.out, <<NL>> \o want)
        /\ is_some(args.cfg.max_bytes)
           => ContentCount(ret.w.out) <= unwrap(args.cfg.max_bytes)

\* a file longer than the lookahead, cut by a cap inside the streamed rest
C1_Witness ==
    /\ StreamCalled
    /\ IsText(args.file)
    /\ Len(args.file.bytes) = MaxFileLen
    /\ args.cfg.max_bytes = Some(LookaheadLen + 1)
    /\ ret.w.err = "none"
    /\ ContentCount(ret.w.out) = LookaheadLen + 1

\* C2: for a file with a zero byte in the lookahead, whatever max_bytes is,
\* stream_file_content reads the file once only and writes no byte of it; it
\* writes the binary-suppressed marker, and nothing at all when an I/O call
\* fails.
C2_BinaryShortCircuit ==
    (StreamCalled /\ IsBinary(args.file)) =>
        /\ ret.w.reads = 1
        /\ ContentCount(ret.w.out) = 0
        /\ args.fault = NoFault => ret.w.err = "none"
        /\ ret.w.err = "none"
           => ret.w.out = <<NL, "<Binary content suppressed>", NL, NL>>
        /\ ret.w.err # "none" => ret.w.out = <<>>

\* a long file whose only zero byte is the last byte of the lookahead
C2_Witness ==
    /\ StreamCalled
    /\ Len(args.file.bytes) = MaxFileLen
    /\ \A i \in 1..MaxFileLen : (args.file.bytes[i] = NUL) <=> (i = LookaheadLen)
    /\ args.cfg.max_bytes = Some(MaxCap)
    /\ ret.w.err = "none"
    /\ ret.w.out # <<>>

\* C8: for a zero-length file, whatever max_bytes is, stream_file_content
\* writes the empty-file marker text and nothing else, and returns success;
\* when an I/O call fails it writes nothing.
C8_EmptyFile ==
    (StreamCalled /\ args.file.openable /\ args.file.bytes = <<>>) =>
        /\ ret.w.reads = 1
        /\ args.fault = NoFault => ret.w.err = "none"
        /\ ret.w.err = "none" => ret.w.out = <<NL, "<Empty File>", NL, NL>>
        /\ ret.w.err # "none" => ret.w.out = <<>>

C8_Witness ==
    /\ StreamCalled
    /\ args.file.openable
    /\ args.file.bytes = <<>>
    /\ args.cfg.max_bytes = Some(0)
    /\ ret.w.err = "none"
    /\ Len(ret.w.out) = 4

\* the path a record shows
ShownPath(path, canon, cfg) ==
    IF cfg.absolute_path THEN (IF is_some(canon) THEN unwrap(canon) ELSE path)
    ELSE IF IsPrefix(cfg.base_path, path)
         THEN SubSeq(path, Len(cfg.base_path) + 1, Len(path))
         ELSE path

HeaderLine(path, canon, cfg) ==
    IF cfg.read_content
    THEN <<"=== ">> \o display(ShownPath(path, canon, cfg)) \o <<" ===", NL>>
    ELSE display(ShownPath(path, canon, cfg)) \o <<NL>>

\* a blank line, the bytes up to the cap or a marker, two newlines
ContentBlock(file, max_bytes) ==
    <<NL>>
    \o (IF ~file.openable THEN <<"<Error opening file: e>">>
        ELSE IF file.bytes = <<>> THEN <<"<Empty File>">>
        ELSE IF IsBinary(file) THEN <<"<Binary content suppressed>">>
        ELSE CappedBytes(file, max_bytes))
    \o <<NL, NL>>

RecordText(path, canon, file, cfg) ==
    HeaderLine(path, canon, cfg)
    \o (IF cfg.read_content THEN ContentBlock(file, cfg.max_bytes) ELSE <<>>)

ProcessCalled == ret.done /\ ret.fn = "process_file"

Eligible(e, cfg) ==
    /\ ~e.is_error
    /\ e.depth > 0
    /\ e.file_type # "dir"
    /\ Accepts(e.path, cfg, FALSE)

EligibleUpTo(k) == {i \in 1..k : Eligible(entries[i], config)}

EntryRecord(e) == RecordText(e.path, e.canon, e.file, config)

\* the records owed to the first k entries, in traversal order
ExpectedSink(k) ==
    Concat([i \in 1..k |-> IF Eligible(entries[i], config)
                           THEN EntryRecord(entries[i]) ELSE <<>>])

\* the paths they show, in traversal order
ExpectedPaths(k) ==
    Concat([i \in 1..k |-> IF Eligible(entries[i], config)
                           THEN <<display(ShownPath(entries[i].path, entries[i].canon,
                                                    config))>>
                           ELSE <<>>])

TakeUntil(s, tok) ==
    IF \E j \in 1..Len(s) : s[j] = tok
    THEN SubSeq(s, 1, (CHOOSE j \in 1..Len(s) :
                          s[j] = tok /\ \A i \in 1..(j - 1) : s[i] # tok) - 1)
    ELSE s

RECURSIVE HeaderPaths(_)
HeaderPaths(s) ==
    IF s = <<>> THEN <<>>
    ELSE IF Head(s) = "=== "
         THEN <<TakeUntil(Tail(s), " ===")>> \o HeaderPaths(Tail(s))
         ELSE HeaderPaths(Tail(s))

RECURSIVE Lines(_)
Lines(s) ==
    IF s = <<>> THEN <<>>
    ELSE LET l == TakeUntil(s, NL) IN <<l>> \o Lines(SubSeq(s, Len(l) + 2, Len(s)))

\* the paths of the records found on the sink, in order
RecordPaths(s) == IF config.read_content THEN HeaderPaths(s) ELSE Lines(s)

InDiag(msg) == \E i \in 1..Len(diag) : diag[i] = msg

\* C3: a broken-pipe failure of process_file ends the run at once in the
\* Aborted state with a success result: that step writes nothing to the
\* diagnostic channel and does not count the entry, no step follows it (no
\* later entry is filtered or written, no flush, no summary).
C3_BrokenPipeAborts ==
    /\ [](state = "Aborted"
          => /\ last = "BrokenPipe"
             /\ exit = "Ok"
             /\ flushes = 0
             /\ ~InDiag("Done")
             /\ ~InDiag("Error"))
    /\ [][/\ state # "Aborted"
          /\ last' = "BrokenPipe"
             => /\ state' = "Aborted"
                /\ exit' = "Ok"
                /\ idx' = idx + 1
                /\ diag' = diag
                /\ count' = count]_vars

\* an abort that leaves an entry owed a record unvisited, diagnostics on
C3_Witness ==
    /\ state = "Aborted"
    /\ ~config.quiet
    /\ sink # <<>>
    /\ idx < Len(entries)
    /\ Eligible(entries[Len(entries)], config)

\* C4: every loop step consumes exactly one traversal result (none is taken
\* twice); after a traversal error and after a process_file failure other
\* than broken pipe the run is still Running and the failure has been logged
\* once (not at all when quiet); an entry owed a record is always handed to
\* process_file, whatever failed before it, and when that call succeeds
\* (also for a file that cannot be opened, whose record carries the error
\* marker) its record is appended to the sink and nothing is logged.
C4_RecoverableFailures ==
    [][/\ idx' \in {idx, idx + 1}
       /\ idx' = idx => last' \in {"FlushOk", "FlushBrokenPipe", "FlushOther"}
       /\ (idx' = idx + 1 /\ last' = "TraversalError")
          => /\ state' = "Running"
             /\ sink' = sink
             /\ count' = count
             /\ diag' = IF config.quiet THEN diag ELSE Append(diag, "Traversal Error")
       /\ (idx' = idx + 1 /\ last' = "Other")
          => /\ state' = "Running"
             /\ count' = count + 1
             /\ diag' = IF config.quiet THEN diag ELSE Append(diag, "Error processing")
       /\ (idx' = idx + 1 /\ Eligible(entries[idx + 1], config))
          => /\ last' \in {"Ok", "Other", "BrokenPipe"}
             /\ last' = "Ok"
                => /\ sink' = sink \o EntryRecord(entries[idx + 1])
                   /\ state' = "Running"
                   /\ diag' = diag]_vars

\* after a failed write, the record of a file that cannot be opened is written
C4_Witness ==
    /\ state = "Running"
    /\ last = "Ok"
    /\ "write" \in faults
    /\ count = 2
    /\ ~config.quiet
    /\ config.read_content
    /\ ~entries[idx].file.openable

\* C5: as long as no write to the sink has failed, the records on the sink
\* show exactly the entries of depth > 0 that are no directories and pass
\* the filter, once each, in traversal order; when no I/O call has failed at
\* all, the sink holds exactly their records.
C5_RecordsInOrder ==
    state \in {"Running", "Completed", "Aborted", "Failed"} =>
        /\ "write" \notin faults => RecordPaths(sink) = ExpectedPaths(idx)
        /\ faults = {} => sink = ExpectedSink(idx)

\* a finished run that wrote some entries and skipped others below the root
C5_Witness ==
    /\ state = "Completed"
    /\ faults = {}
    /\ idx = MaxEntries + 1
    /\ count = 1
    /\ sink # <<>>
    /\ entries[2].file_type = "dir"

\* C10: files_processed is the number of entries handled so far that have
\* depth > 0, are no directories and pass the filter, less the one whose
\* write ended in the broken-pipe abort.
C10_Count ==
    state \in {"Running", "Completed", "Aborted", "Failed"} =>
        count = Cardinality(EligibleUpTo(idx)) - (IF state = "Aborted" THEN 1 ELSE 0)

\* an entry counted although its write failed, after an entry not counted
C10_Witness ==
    /\ last = "Other"
    /\ count = 1
    /\ idx = 3

\* C9 as stated: after the traversal is exhausted the summary is written
\* exactly when quiet is off and the output is no file.
C9_SummaryExactlyWhen ==
    state \in {"Completed", "Failed"}
        => (InDiag("Done") <=> (~config.quiet /\ ~is_some(config.output)))

\* C9 (amended): a run whose traversal is exhausted flushes the sink exactly
\* once, a run that is still going or was aborted has not flushed; a flush
\* that fails with broken pipe ends the run with success and no error
\* report; a flush that succeeds or fails with broken pipe is followed by the
\* summary exactly when quiet is off and the output is no file; a flush that
\* fails with any other error ends the run with failure and no summary.
C9_FlushAndSummary ==
    /\ state \in {"Running", "Aborted"} => flushes = 0
    /\ state \in {"Completed", "Failed"} => flushes = 1 /\ idx = Len(entries)
    /\ last = "FlushBrokenPipe"
       => state = "Completed" /\ exit = "Ok" /\ ~InDiag("Error")
    /\ state = "Completed"
       => /\ exit = "Ok"
          /\ InDiag("Done") <=> (~config.quiet /\ ~is_some(config.output))
    /\ state = "Failed"
       => last = "FlushOther" /\ exit = "Err" /\ ~InDiag("Done")

\* a broken-pipe flush after a written record, followed by the summary
C9_Witness ==
    /\ last = "FlushBrokenPipe"
    /\ InDiag("Done")
    /\ count >= 1

====
